---- MODULE Spec2Model ----
(***************************************************************************)
(* A model of the mtail Server of internal/mtail/mtail.go: construction    *)
(* (New), the primary function (Run), the web server (Serve,               *)
(* WaitForShutdown, handleQuit) and the once-guarded shutdown (Close).     *)
(*                                                                         *)
(* The threads are the main thread, which runs New and then Run, the       *)
(* threads of Closers, which each call Close once, the goroutine Serve     *)
(* starts around h.Serve, the HTTP handlers of /quitquitquit, the OS       *)
(* delivering a signal, and the loader, which signals VMsDone.             *)
(***************************************************************************)
EXTENDS Integers, Sequences, FiniteSets

\* Bounds of the model.
MaxOptions == 2
MaxPatterns == 2
MaxQuitPosts == 2

\* The threads other than the main thread that call Server.Close.
Closers == {"c1", "c2"}
Threads == {"main"} \cup Closers

VARIABLES
    \* Server fields set by the options (mtail.go:72-78).
    bindAddress, programPath, logPathPatterns, oneShot, compileOnly,
    \* New (mtail.go:243-265): its arguments and how many were invoked (both
    \* gone once New has returned a Server), its position and its result.
    options, optionsApplied, newpc, newErr, loadAttempted,
    \* Server fields m.e, m.l, m.t, m.h: TRUE when non-nil.
    e, l, t, h,
    \* Run / StartTailing / Serve / WaitForShutdown on the main thread.
    runpc, runErr, tailed, tailFailed, storeGc, tailerGc, serveSetup,
    notifyRegistered, sigDelivered, metricsDumped,
    \* WriteMetrics: whether it holds the read lock of the metrics store,
    \* and the outcome of json.MarshalIndent ("none", "ok", "err").
    storeRLocked, marshalled,
    \* Close: the once-guard, the position of the shutdown body, each
    \* thread's call of Close with the error it returned ("none" before it
    \* returns), and what the body has done so far.
    closeOnce, bodypc, closepc, closeRet, closeQuitCloses, tailerCloses,
    linesCloses, vmsDoneAwaits, httpShutdowns, shutdownLog,
    \* The goroutine of Serve, what h.Serve returned, and the channel errc.
    httppc, hServeErr, errc,
    \* handleQuit: how often close(m.webquit) has been executed, and the
    \* method of the last request with the status of its response.
    webquitCloses, lastMethod, lastStatus,
    \* Whether some HTTP connection is one that never finishes.
    stuckConn,
    \* The loader's shutdown: "none", "running", "done" (VMsDone signalled)
    \* or "hung" (a VM never drains).
    loader

cfgVars == <<bindAddress, programPath, logPathPatterns, oneShot, compileOnly>>
newVars == <<options, optionsApplied, newpc, newErr, loadAttempted, e, l, t, h>>
runVars == <<runpc, runErr, tailed, tailFailed, storeGc, tailerGc, serveSetup,
             notifyRegistered, sigDelivered, metricsDumped, storeRLocked,
             marshalled>>
closeVars == <<closeOnce, bodypc, closepc, closeRet, closeQuitCloses,
               tailerCloses, linesCloses, vmsDoneAwaits, httpShutdowns, shutdownLog>>
httpVars == <<httppc, errc, hServeErr, stuckConn>>
quitVars == <<webquitCloses, lastMethod, lastStatus>>
vars == <<cfgVars, newVars, runVars, closeVars, httpVars, quitVars, loader>>

\* The outcomes of the option functions handed to New, in order.
OptionSeqs == UNION {[1..n -> {"ok", "err"}] : n \in 0..MaxOptions}
PatternSeqs == {[i \in 1..n |-> i] : n \in 0..MaxPatterns}

\* The state every Server starts in, before any option is applied.
InitRun ==
    /\ runpc = "idle" /\ runErr = "none" /\ tailed = <<>> /\ tailFailed = FALSE
    /\ storeGc = FALSE /\ tailerGc = FALSE /\ serveSetup = FALSE
    /\ notifyRegistered = FALSE /\ sigDelivered = FALSE
    /\ metricsDumped = FALSE /\ storeRLocked = FALSE /\ marshalled = "none"
    /\ closeOnce = "fresh" /\ bodypc = "none"
    /\ closepc = [th \in Threads |-> "idle"]
    /\ closeRet = [th \in Threads |-> "none"]
    /\ closeQuitCloses = 0 /\ tailerCloses = 0 /\ linesCloses = 0
    /\ vmsDoneAwaits = 0 /\ httpShutdowns = 0 /\ shutdownLog = {}
    /\ httppc = "none" /\ errc = "empty" /\ hServeErr = "none"
    /\ stuckConn = FALSE
    /\ webquitCloses = 0 /\ lastMethod = "none" /\ lastStatus = "none"

\* A Server under construction by New (mtail.go:244-251): h is set, the
\* exporter, loader and tailer are not yet.
InitNew ==
    /\ bindAddress \in {"", "addr"} /\ programPath \in {"", "progs"}
    /\ logPathPatterns \in PatternSeqs
    /\ oneShot \in BOOLEAN /\ compileOnly \in BOOLEAN
    /\ options \in OptionSeqs /\ optionsApplied = 0
    /\ newpc = "SetOption" /\ newErr = "none" /\ loadAttempted = FALSE
    /\ e = FALSE /\ l = FALSE /\ t = FALSE /\ h = TRUE
    /\ loader = "none"

\* A Server built as a struct literal (the tests of the package): any of
\* the tailer, the loader and the HTTP server may be missing
\* (mtail.go:357-376).  Only Close is exercised on such a Server.
InitLiteral ==
    /\ bindAddress = "" /\ programPath = "" /\ logPathPatterns = <<>>
    /\ oneShot = FALSE /\ compileOnly = FALSE
    /\ options = <<>> /\ optionsApplied = 0
    /\ newpc = "literal" /\ newErr = "none" /\ loadAttempted = FALSE
    /\ e = FALSE /\ l \in BOOLEAN /\ t \in BOOLEAN /\ h \in BOOLEAN
    /\ loader = IF l THEN "running" ELSE "none"

Init == InitRun /\ (InitNew \/ InitLiteral)

----------------------------------------------------------------------------
(* New *)

\* The index of the first option that fails, 0 when none does.
FirstFailing(opts) ==
    IF \E i \in 1..Len(opts) : opts[i] = "err"
    THEN CHOOSE i \in 1..Len(opts) :
            opts[i] = "err" /\ \A j \in 1..(i - 1) : opts[j] = "ok"
    ELSE 0

\* How many options SetOption invokes: all of them, or up to and including
\* the first that fails.
OptionsInvokedAll(opts) == Len(opts)
OptionsInvoked(opts) ==
    IF FirstFailing(opts) = 0 THEN Len(opts) ELSE FirstFailing(opts)

\* New, mtail.go:252-254.
SetOption ==
    /\ newpc = "SetOption"
    /\ optionsApplied' = OptionsInvoked(options)
    /\ IF FirstFailing(options) = 0
       THEN newpc' = "initExporter" /\ newErr' = "none"
       ELSE newpc' = "failed" /\ newErr' = "option"
    /\ UNCHANGED <<cfgVars, options, loadAttempted, e, l, t, h, runVars,
                   closeVars, httpVars, quitVars, loader>>

\* New, mtail.go:255-257: exporter.New may fail.
initExporter ==
    /\ newpc = "initExporter"
    /\ \E ok \in BOOLEAN :
          IF ok
          THEN e' = TRUE /\ newpc' = "initLoader" /\ newErr' = "none"
          ELSE e' = FALSE /\ newpc' = "failed" /\ newErr' = "exporter"
    /\ UNCHANGED <<cfgVars, options, optionsApplied, loadAttempted, l, t, h,
                   runVars, closeVars, httpVars, quitVars, loader>>

\* Whether initLoader goes on to LoadAllPrograms once NewLoader succeeded.
LoadsProgramsAlways(path) == TRUE
LoadsPrograms(path) == path # ""

\* New, mtail.go:258-260: vm.NewLoader may fail; the initial load runs only
\* for a non-empty programPath and may report compile errors.
initLoader ==
    /\ newpc = "initLoader"
    /\ \E newLoaderOk \in BOOLEAN, compileOk \in BOOLEAN :
          IF ~newLoaderOk
          THEN /\ l' = FALSE /\ loader' = "none" /\ loadAttempted' = FALSE
               /\ newpc' = "failed" /\ newErr' = "loader"
          ELSE /\ l' = TRUE /\ loader' = "running"
               /\ loadAttempted' = LoadsPrograms(programPath)
               /\ IF LoadsPrograms(programPath) /\ ~compileOk
                  THEN newpc' = "failed" /\ newErr' = "compile"
                  ELSE newpc' = "initTailer" /\ newErr' = "none"
    /\ UNCHANGED <<cfgVars, options, optionsApplied, e, t, h, runVars,
                   closeVars, httpVars, quitVars>>

\* New, mtail.go:261-264: tailer.New may fail.
initTailer ==
    /\ newpc = "initTailer"
    /\ \E ok \in BOOLEAN :
          IF ok
          THEN /\ t' = TRUE /\ newpc' = "done" /\ newErr' = "none"
               /\ options' = <<>> /\ optionsApplied' = 0
          ELSE /\ t' = FALSE /\ newpc' = "failed" /\ newErr' = "tailer"
               /\ UNCHANGED <<options, optionsApplied>>
    /\ UNCHANGED <<cfgVars, loadAttempted, e, l, h,
                   runVars, closeVars, httpVars, quitVars, loader>>

\* New returned a Server, or the Server is a literal: the Server exists.
Constructed == newpc \in {"done", "literal"}

----------------------------------------------------------------------------
(* Close *)

\* sync.Once.Do runs its function only on the first call.
MayRunBodyAlways(once) == TRUE
MayRunBody(once) == once = "fresh"

\* sync.Once.Do returns to a caller only when the function has returned,
\* also to the callers that did not run it.
MayReturnEarly(once) == once # "fresh"
MayReturn(once) == once = "done"

\* The order of the steps of the shutdown body.
AfterStepHTTPFirst(step) ==
    CASE step = "closeQuit" -> "ingest"
      [] step = "ingest" -> "httpShutdown"
      [] step = "httpShutdown" -> "waitVMs"
      [] step = "waitVMs" -> "end"
AfterStep(step) ==
    CASE step = "closeQuit" -> "ingest"
      [] step = "ingest" -> "waitVMs"
      [] step = "waitVMs" -> "httpShutdown"
      [] step = "httpShutdown" -> "end"

\* Close closes the lines channel itself only without a tailer.
ClosesLinesAlways(tl) == TRUE
ClosesLinesDirectly(tl) == ~tl

\* h.Shutdown(ctx) returns when the connections are idle or, ctx carrying
\* a timeout of 5 s, when the timeout expires.
ShutdownCompletesNoTimeout(stuck) == ~stuck
ShutdownCompletes(stuck) == TRUE

\* Thread th stands at a call of Close that it has not made yet.
AtCloseCall(th) ==
    /\ Constructed
    /\ closepc[th] = "idle"
    /\ th = "main" => runpc \in {"oneShotClose", "wfsClose"}

\* m.closeOnce.Do(...), mtail.go:354: the first caller runs the body
\* ("inBody"), the others wait inside Do ("waiting").
CloseEnter(th) ==
    /\ AtCloseCall(th)
    /\ IF MayRunBody(closeOnce)
       THEN /\ closepc' = [closepc EXCEPT ![th] = "inBody"]
            /\ closeOnce' = "running" /\ bodypc' = "closeQuit"
       ELSE /\ closepc' = [closepc EXCEPT ![th] = "waiting"]
            /\ UNCHANGED <<closeOnce, bodypc>>
    /\ UNCHANGED <<cfgVars, newVars, runVars, closeRet, closeQuitCloses,
                   tailerCloses, linesCloses, vmsDoneAwaits, httpShutdowns,
                   shutdownLog, httpVars, quitVars, loader>>

\* close(m.closeQuit), mtail.go:356.
BodyCloseQuit ==
    /\ bodypc = "closeQuit"
    /\ closeQuitCloses' = closeQuitCloses + 1
    /\ bodypc' = AfterStep("closeQuit")
    /\ UNCHANGED <<cfgVars, newVars, runVars, closeOnce, closepc, closeRet,
                   tailerCloses, linesCloses, vmsDoneAwaits, httpShutdowns,
                   shutdownLog, httpVars, quitVars, loader>>

\* mtail.go:360-369: m.t.Close(), whose failure is only logged, or
\* close(m.lines) without a tailer.
BodyIngest ==
    /\ bodypc = "ingest"
    /\ IF ClosesLinesDirectly(t)
       THEN /\ linesCloses' = linesCloses + 1
            /\ UNCHANGED <<tailerCloses, shutdownLog>>
       ELSE /\ tailerCloses' = tailerCloses + 1
            /\ \E failed \in BOOLEAN :
                  shutdownLog' = IF failed
                                 THEN shutdownLog \cup {"tailer close failed"}
                                 ELSE shutdownLog
            /\ UNCHANGED linesCloses
    /\ bodypc' = AfterStep("ingest")
    /\ UNCHANGED <<cfgVars, newVars, runVars, closeOnce, closepc, closeRet,
                   closeQuitCloses, vmsDoneAwaits, httpShutdowns, httpVars,
                   quitVars, loader>>

\* mtail.go:371-375: <-m.l.VMsDone blocks until the loader signals.
BodyWaitVMs ==
    /\ bodypc = "waitVMs"
    /\ IF l
       THEN loader = "done" /\ vmsDoneAwaits' = vmsDoneAwaits + 1
       ELSE UNCHANGED vmsDoneAwaits
    /\ bodypc' = AfterStep("waitVMs")
    /\ UNCHANGED <<cfgVars, newVars, runVars, closeOnce, closepc, closeRet,
                   closeQuitCloses, tailerCloses, linesCloses, httpShutdowns,
                   shutdownLog, httpVars, quitVars, loader>>

\* mtail.go:376-382: m.h.Shutdown(ctx) under a timeout; its error is logged.
BodyHTTPShutdown ==
    /\ bodypc = "httpShutdown"
    /\ IF h
       THEN /\ ShutdownCompletes(stuckConn)
            /\ httpShutdowns' = httpShutdowns + 1
            /\ shutdownLog' = IF stuckConn
                              THEN shutdownLog \cup {"shutdown timeout"}
                              ELSE shutdownLog
       ELSE UNCHANGED <<httpShutdowns, shutdownLog>>
    /\ bodypc' = AfterStep("httpShutdown")
    /\ UNCHANGED <<cfgVars, newVars, runVars, closeOnce, closepc, closeRet,
                   closeQuitCloses, tailerCloses, linesCloses, vmsDoneAwaits,
                   httpVars, quitVars, loader>>

\* mtail.go:383-384: the body returns and the once-guard is done.
BodyEnd ==
    /\ bodypc = "end"
    /\ bodypc' = "finished"
    /\ closeOnce' = "done"
    /\ UNCHANGED <<cfgVars, newVars, runVars, closepc, closeRet,
                   closeQuitCloses, tailerCloses, linesCloses, vmsDoneAwaits,
                   httpShutdowns, shutdownLog, httpVars, quitVars, loader>>

\* What Close returns, mtail.go:385, whatever the body has logged.
CloseResultFromLog(log) == IF log = {} THEN "nil" ELSE "err"
CloseResult(log) == "nil"

\* mtail.go:385: Do has returned to th, and Close returns.
CloseReturn(th) ==
    /\ IF closepc[th] = "inBody"
       THEN bodypc = "finished"
       ELSE closepc[th] = "waiting" /\ MayReturn(closeOnce)
    /\ closepc' = [closepc EXCEPT ![th] = "returned"]
    /\ closeRet' = [closeRet EXCEPT ![th] = CloseResult(shutdownLog)]
    /\ UNCHANGED <<cfgVars, newVars, runVars, closeOnce, bodypc,
                   closeQuitCloses, tailerCloses, linesCloses, vmsDoneAwaits,
                   httpShutdowns, shutdownLog, httpVars, quitVars, loader>>

\* The shutdown body has closed the line ingestion.
IngestionClosed == tailerCloses > 0 \/ linesCloses > 0

----------------------------------------------------------------------------
(* The loader's shutdown (internal/vm, modelled from the specification) *)

\* Once its input is closed the loader drains the VMs and signals VMsDone.
LoaderVMsDone ==
    /\ loader = "running"
    /\ IngestionClosed
    /\ loader' = "done"
    /\ UNCHANGED <<cfgVars, newVars, runVars, closeVars, httpVars, quitVars>>

\* A VM that never drains: VMsDone is never signalled.
LoaderHang ==
    /\ loader = "running"
    /\ IngestionClosed
    /\ loader' = "hung"
    /\ UNCHANGED <<cfgVars, newVars, runVars, closeVars, httpVars, quitVars>>

----------------------------------------------------------------------------
(* Run *)

\* Run returns at once in compile-only mode, mtail.go:392-395.
NeverExitsEarly(co) == FALSE
ExitsBeforeTailing(co) == co

\* StartTailing, mtail.go:95-100: the patterns handed to TailPattern when
\* the patterns at the indices of failing are the ones that fail.
TailedUntilFailure(patterns, failing) ==
    IF failing = {} THEN patterns
    ELSE SubSeq(patterns, 1, CHOOSE i \in failing : \A j \in failing : i <= j)
TailedPatterns(patterns, failing) == patterns

\* Run, mtail.go:399 and 408: after tailing has started Run shuts down in
\* one-shot mode, and otherwise starts the GC loops and serves.
AfterTailingInverted(os) == IF os THEN "startStoreGc" ELSE "oneShotClose"
AfterTailing(os) == IF os THEN "oneShotClose" ELSE "startStoreGc"

\* StartTailing returns nil whichever patterns failed, mtail.go:101.
StartTailingResult(failing) == "nil"

\* Run, mtail.go:392-399 with StartTailing, mtail.go:93-102: Run is called
\* on a Server that New returned.  An error of StartTailing would end the
\* process (glog.Exitf).
RunStart ==
    /\ newpc = "done"
    /\ runpc = "idle"
    /\ IF ExitsBeforeTailing(compileOnly)
       THEN /\ runpc' = "returned" /\ runErr' = "nil"
            /\ UNCHANGED <<tailed, tailFailed>>
       ELSE /\ \E failing \in SUBSET (1..Len(logPathPatterns)) :
                  /\ tailed' = TailedPatterns(logPathPatterns, failing)
                  /\ tailFailed' = (failing # {})
                  /\ runpc' = IF StartTailingResult(failing) = "nil"
                              THEN AfterTailing(oneShot)
                              ELSE "exited"
            /\ UNCHANGED runErr
    /\ UNCHANGED <<cfgVars, newVars, storeGc, tailerGc, serveSetup,
                   notifyRegistered, sigDelivered, metricsDumped,
                   storeRLocked, marshalled, closeVars, httpVars, quitVars,
                   loader>>

\* The step of WriteMetrics that follows json.MarshalIndent,
\* mtail.go:281-283: the read lock is released whatever the outcome.
WMAfterMarshalOnSuccess(outcome) ==
    IF outcome = "err" THEN "wmWrite" ELSE "wmRUnlock"
WMAfterMarshal(outcome) == "wmRUnlock"

\* Run, mtail.go:400-405, and WriteMetrics, mtail.go:280: once Close has
\* returned, Run returns its error if it has one, and otherwise calls
\* WriteMetrics, which takes the read lock of the store.
RunOneShotClosed ==
    /\ runpc = "oneShotClose"
    /\ closepc["main"] = "returned"
    /\ IF closeRet["main"] # "nil"
       THEN /\ runErr' = closeRet["main"] /\ runpc' = "returned"
            /\ UNCHANGED storeRLocked
       ELSE /\ storeRLocked' = TRUE /\ runpc' = "wmMarshal"
            /\ UNCHANGED runErr
    /\ UNCHANGED <<cfgVars, newVars, tailed, tailFailed, storeGc, tailerGc,
                   serveSetup, notifyRegistered, sigDelivered, metricsDumped,
                   marshalled, closeVars, httpVars, quitVars, loader>>

\* WriteMetrics, mtail.go:281: json.MarshalIndent succeeds or fails.
WriteMetricsMarshal ==
    /\ runpc = "wmMarshal"
    /\ \E outcome \in {"ok", "err"} :
          /\ marshalled' = outcome
          /\ runpc' = WMAfterMarshal(outcome)
    /\ UNCHANGED <<cfgVars, newVars, runErr, tailed, tailFailed, storeGc,
                   tailerGc, serveSetup, notifyRegistered, sigDelivered,
                   metricsDumped, storeRLocked, closeVars, httpVars,
                   quitVars, loader>>

\* WriteMetrics, mtail.go:282: m.store.RUnlock().
WriteMetricsRUnlock ==
    /\ runpc = "wmRUnlock"
    /\ storeRLocked' = FALSE
    /\ runpc' = "wmWrite"
    /\ UNCHANGED <<cfgVars, newVars, runErr, tailed, tailFailed, storeGc,
                   tailerGc, serveSetup, notifyRegistered, sigDelivered,
                   metricsDumped, marshalled, closeVars, httpVars, quitVars,
                   loader>>

\* WriteMetrics, mtail.go:283-287, and Run, mtail.go:405-415: a marshalling
\* error is returned without writing; otherwise the bytes are written and
\* the error of the write, if any, is returned.
RunWriteMetrics ==
    /\ runpc = "wmWrite"
    /\ IF marshalled = "err"
       THEN runErr' = "marshalErr" /\ UNCHANGED metricsDumped
       ELSE /\ metricsDumped' = TRUE
            /\ \E writeErr \in {"nil", "writeErr"} : runErr' = writeErr
    /\ runpc' = "returned"
    /\ UNCHANGED <<cfgVars, newVars, tailed, tailFailed, storeGc, tailerGc,
                   serveSetup, notifyRegistered, sigDelivered, storeRLocked,
                   marshalled, closeVars, httpVars, quitVars, loader>>

\* Run, mtail.go:409.
RunStartStoreGc ==
    /\ runpc = "startStoreGc"
    /\ storeGc' = TRUE
    /\ runpc' = "startTailerGc"
    /\ UNCHANGED <<cfgVars, newVars, runErr, tailed, tailFailed, tailerGc,
                   serveSetup, notifyRegistered, sigDelivered, metricsDumped,
                   storeRLocked, marshalled, closeVars, httpVars, quitVars,
                   loader>>

\* Run, mtail.go:410.
RunStartTailerGc ==
    /\ runpc = "startTailerGc"
    /\ tailerGc' = TRUE
    /\ runpc' = "serve"
    /\ UNCHANGED <<cfgVars, newVars, runErr, tailed, tailFailed, storeGc,
                   serveSetup, notifyRegistered, sigDelivered, metricsDumped,
                   storeRLocked, marshalled, closeVars, httpVars, quitVars,
                   loader>>

----------------------------------------------------------------------------
(* Serve, WaitForShutdown, handleQuit *)

\* Serve refuses to start without a bind address, mtail.go:292-294.
ServeRefusesNever(addr) == FALSE
ServeRefuses(addr) == addr = ""

\* Serve, mtail.go:291-320, up to the select of WaitForShutdown,
\* mtail.go:337-338: without a bind address Serve (and so Run) returns an
\* error; otherwise the handlers are installed, the metric push and the
\* serving goroutine are started and the signals are subscribed to.
ServeStart ==
    /\ runpc = "serve"
    /\ IF ServeRefuses(bindAddress)
       THEN /\ runErr' = "noBindAddress" /\ runpc' = "returned"
            /\ UNCHANGED <<serveSetup, notifyRegistered, httppc>>
       ELSE /\ serveSetup' = TRUE /\ httppc' = "serving"
            /\ notifyRegistered' = TRUE /\ runpc' = "wfsSelect"
            /\ UNCHANGED runErr
    /\ UNCHANGED <<cfgVars, newVars, tailed, tailFailed, storeGc, tailerGc,
                   sigDelivered, metricsDumped, storeRLocked, marshalled,
                   closeVars, errc, hServeErr, stuckConn, quitVars, loader>>

\* Which case of the select of WaitForShutdown can be taken,
\* mtail.go:339-346.
SelectReadyAlways(reason) == TRUE
SelectReady(reason) ==
    CASE reason = "signal" -> sigDelivered
      [] reason = "webquit" -> webquitCloses > 0
      [] reason = "closeQuit" -> closeQuitCloses > 0

\* WaitForShutdown, mtail.go:339-346: the select blocks until a signal has
\* arrived, webquit is closed or closeQuit is closed.
WaitForShutdown ==
    /\ runpc = "wfsSelect"
    /\ \E reason \in {"signal", "webquit", "closeQuit"} : SelectReady(reason)
    /\ runpc' = "wfsClose"
    /\ UNCHANGED <<cfgVars, newVars, runErr, tailed, tailFailed, storeGc,
                   tailerGc, serveSetup, notifyRegistered, sigDelivered,
                   metricsDumped, storeRLocked, marshalled, closeVars,
                   httpVars, quitVars, loader>>

\* What the goroutine of Serve sends on errc for the error of h.Serve,
\* mtail.go:316-319.
ErrcValueRaw(err) == err
ErrcValue(err) == IF err = "ErrServerClosed" THEN "nil" ELSE err

\* The goroutine of Serve, mtail.go:312-320: h.Serve returns
\* ErrServerClosed once Shutdown has been called, or fails on its
\* listener; the result goes to errc, which holds one value.
HTTPServeExit ==
    /\ httppc = "serving"
    /\ hServeErr' = IF httpShutdowns > 0 THEN "ErrServerClosed" ELSE "listenErr"
    /\ errc' = ErrcValue(hServeErr')
    /\ httppc' = "exited"
    /\ UNCHANGED <<cfgVars, newVars, runVars, closeVars, stuckConn, quitVars,
                   loader>>

\* Serve, mtail.go:321-322, and Run, mtail.go:411-415: WaitForShutdown has
\* returned from its Close, and the value of errc is returned.
ServeReturn ==
    /\ runpc = "wfsClose"
    /\ closepc["main"] = "returned"
    /\ errc # "empty"
    /\ runErr' = errc
    /\ errc' = "empty"
    /\ runpc' = "returned"
    /\ UNCHANGED <<cfgVars, newVars, tailed, tailFailed, storeGc, tailerGc,
                   serveSetup, notifyRegistered, sigDelivered, metricsDumped,
                   storeRLocked, marshalled, closeVars, httppc, hServeErr,
                   stuckConn, quitVars, loader>>

\* The HTTP server takes requests from the start of h.Serve until Shutdown.
Accepting == httppc = "serving" /\ httpShutdowns = 0

\* handleQuit turns away every method but POST, mtail.go:326.
RejectsNoMethod(method) == FALSE
RejectsMethod(method) == method # "POST"

\* handleQuit, mtail.go:325-333: a request other than POST gets 405; a
\* POST executes close(m.webquit), which panics when webquit is closed
\* already (the HTTP server recovers the panic of a handler).  POSTs
\* beyond MaxQuitPosts are not modelled.
handleQuit ==
    /\ Accepting
    /\ \E method \in {"GET", "POST"} :
          /\ lastMethod' = method
          /\ IF RejectsMethod(method)
             THEN /\ lastStatus' = "405 Allow: POST"
                  /\ UNCHANGED webquitCloses
             ELSE /\ webquitCloses < MaxQuitPosts
                  /\ lastStatus' = "200 Exiting..."
                  /\ webquitCloses' = webquitCloses + 1
    /\ UNCHANGED <<cfgVars, newVars, runVars, closeVars, httpVars, loader>>

\* A connection of the HTTP server that never becomes idle.
HTTPConnStuck ==
    /\ Accepting
    /\ ~stuckConn
    /\ stuckConn' = TRUE
    /\ UNCHANGED <<cfgVars, newVars, runVars, closeVars, httppc, errc,
                   hServeErr, quitVars, loader>>

\* The OS delivers an interrupt or SIGTERM to the channel of
\* WaitForShutdown, mtail.go:337-338, which holds one signal.
OSSignal ==
    /\ notifyRegistered
    /\ runpc = "wfsSelect"
    /\ ~sigDelivered
    /\ sigDelivered' = TRUE
    /\ UNCHANGED <<cfgVars, newVars, runpc, runErr, tailed, tailFailed,
                   storeGc, tailerGc, serveSetup, notifyRegistered,
                   metricsDumped, storeRLocked, marshalled, closeVars,
                   httpVars, quitVars, loader>>

----------------------------------------------------------------------------
(* The specification *)

New == SetOption \/ initExporter \/ initLoader \/ initTailer

CloseBody ==
    BodyCloseQuit \/ BodyIngest \/ BodyWaitVMs \/ BodyHTTPShutdown \/ BodyEnd

Close == \E th \in Threads : CloseEnter(th) \/ CloseReturn(th)

Run ==
    \/ RunStart \/ RunStartStoreGc \/ RunStartTailerGc
    \/ RunOneShotClosed \/ WriteMetricsMarshal \/ WriteMetricsRUnlock
    \/ RunWriteMetrics

Serve == ServeStart \/ WaitForShutdown \/ HTTPServeExit \/ ServeReturn

Environment == handleQuit \/ HTTPConnStuck \/ OSSignal

Loader == LoaderVMsDone \/ LoaderHang

Next == New \/ Run \/ Serve \/ Close \/ CloseBody \/ Environment \/ Loader

Spec == Init /\ [][Next]_vars

\* The scheduler runs every thread that can take a step, so each step of
\* the program that stays possible is taken.  The loader is only required
\* to settle (it signals VMsDone, or a VM never drains); the requests, the
\* signal and the calls of Close by the other threads may never come.
FairSpec ==
    /\ Spec
    /\ WF_vars(New) /\ WF_vars(Run)
    /\ WF_vars(ServeStart) /\ WF_vars(WaitForShutdown)
    /\ WF_vars(HTTPServeExit) /\ WF_vars(ServeReturn)
    /\ WF_vars(CloseBody)
    /\ WF_vars(CloseEnter("main"))
    /\ \A th \in Threads : WF_vars(CloseReturn(th))
    /\ WF_vars(Loader)

----------------------------------------------------------------------------
(* Properties *)

\* The body of Close has closed the ingestion, received VMsDone when
\* there is a loader, and shut the HTTP server down when there is one.
ShutdownSteps ==
    /\ closeQuitCloses > 0
    /\ IngestionClosed
    /\ l => (vmsDoneAwaits > 0 /\ loader = "done")
    /\ h => httpShutdowns > 0

\* C1: over any number of calls of Close, one after the other or at the
\* same time, the shutdown body runs at most once: closeQuit is closed at
\* most once, the ingestion is closed at most once (by tailer.Close or by
\* closing lines, never both), VMsDone is awaited at most once and the
\* HTTP server is shut down at most once.
C1_CloseBodyRunsAtMostOnce ==
    /\ closeQuitCloses <= 1
    /\ tailerCloses + linesCloses <= 1
    /\ vmsDoneAwaits <= 1
    /\ httpShutdowns <= 1
    /\ Cardinality({th \in Threads : closepc[th] = "inBody"}) <= 1

\* Three threads have called Close and all have returned.
C1_Witness ==
    /\ \A th \in Threads : closepc[th] = "returned"
    /\ closeQuitCloses = 1 /\ tailerCloses = 1
    /\ vmsDoneAwaits = 1 /\ httpShutdowns = 1

\* C2: the steps of the shutdown body happen in the order closeQuit,
\* ingestion, VMsDone (with a loader), HTTP shutdown, return: no step has
\* happened unless the ones before it have, and no call of Close has
\* returned before all of them.
C2_ShutdownOrder ==
    /\ IngestionClosed => closeQuitCloses > 0
    /\ vmsDoneAwaits > 0 => (IngestionClosed /\ loader = "done")
    /\ httpShutdowns > 0 => (IngestionClosed /\ (l => vmsDoneAwaits > 0))
    /\ closeOnce = "done" => ShutdownSteps
    /\ \A th \in Threads : closepc[th] = "returned" => ShutdownSteps

\* A call of Close has returned on a Server with a loader, a tailer and an
\* HTTP server.
C2_Witness ==
    /\ closepc["c1"] = "returned"
    /\ l /\ t /\ h
    /\ vmsDoneAwaits = 1 /\ httpShutdowns = 1

\* Run has been called on a Server in one-shot mode.
OneShotMode == newpc = "done" /\ oneShot /\ ~compileOnly

\* C3: in one-shot mode Run starts tailing, then calls Close, and dumps the
\* metrics only once Close has returned, so after the loader has signalled
\* VMsDone; it starts no GC loop and no HTTP server, and never waits for a
\* shutdown trigger.
C3_OneShotRun ==
    OneShotMode =>
        /\ closepc["main"] # "idle" => tailed = logPathPatterns
        /\ metricsDumped =>
              (closepc["main"] = "returned" /\ vmsDoneAwaits > 0
               /\ loader = "done")
        /\ runpc = "returned" => closepc["main"] = "returned"
        /\ ~storeGc /\ ~tailerGc /\ ~serveSetup /\ httppc = "none"
        /\ ~notifyRegistered
        /\ runpc \in {"idle", "oneShotClose", "wmMarshal", "wmRUnlock",
                      "wmWrite", "returned"}

\* Run has returned in one-shot mode after dumping the metrics of two
\* tailed patterns.
C3_Witness ==
    /\ OneShotMode
    /\ runpc = "returned" /\ metricsDumped /\ runErr = "nil"
    /\ Len(tailed) = 2

\* What Run may change in the state of the Server and its surroundings.
runEffects ==
    <<cfgVars, newVars, tailed, tailFailed, storeGc, tailerGc, serveSetup,
      notifyRegistered, sigDelivered, metricsDumped, storeRLocked,
      marshalled, closeVars, httpVars,
      quitVars, loader>>

\* C4: in compile-only mode, whatever oneShot is, the one step Run takes is
\* to return nil, and it changes nothing else: no pattern is tailed, Close
\* is not called by Run, no GC loop and no HTTP server are started, and
\* the metrics are not dumped.
C4_CompileOnlyRun ==
    /\ [](compileOnly =>
            /\ tailed = <<>> /\ ~tailFailed
            /\ closepc["main"] = "idle"
            /\ ~storeGc /\ ~tailerGc /\ ~serveSetup /\ httppc = "none"
            /\ ~metricsDumped
            /\ runpc \in {"idle", "returned"}
            /\ runpc = "returned" => runErr = "nil")
    /\ [][(compileOnly /\ runpc' # runpc) =>
            (runpc' = "returned" /\ runErr' = "nil" /\ UNCHANGED runEffects)]_vars

\* Run has returned in compile-only mode on a Server with patterns to tail.
C4_Witness ==
    /\ compileOnly /\ newpc = "done"
    /\ runpc = "returned"
    /\ Len(logPathPatterns) > 0

\* Run has been called on a Server in continuous mode with a bind address.
ContinuousMode ==
    newpc = "done" /\ ~compileOnly /\ ~oneShot /\ bindAddress # ""

\* One of the shutdown triggers has occurred: a signal, a POST to
\* /quitquitquit, or a call of Close by a thread other than Run's.
ShutdownTriggered ==
    \/ sigDelivered
    \/ webquitCloses > 0
    \/ \E th \in Closers : closepc[th] # "idle"

\* C5: in continuous mode with a bind address Run starts the store GC loop
\* and the tailer GC loop before it serves HTTP, and it gets past the
\* select of WaitForShutdown, and so returns, only once a shutdown trigger
\* has occurred.
C5_ContinuousRun ==
    ContinuousMode =>
        /\ tailerGc => storeGc
        /\ httppc # "none" => (storeGc /\ tailerGc /\ serveSetup)
        /\ runpc \in {"wfsClose", "returned"} =>
              (ShutdownTriggered /\ httppc # "none")

\* Run has returned in continuous mode after a signal, with no quit
\* request and no other caller of Close.
C5_Witness ==
    /\ ContinuousMode
    /\ runpc = "returned"
    /\ sigDelivered /\ webquitCloses = 0
    /\ \A th \in Closers : closepc[th] = "idle"

\* Run is blocked in the select of WaitForShutdown.
WaitingForShutdown == runpc = "wfsSelect"

\* C6: while Serve waits in WaitForShutdown, each shutdown request (a
\* signal, a POST to /quitquitquit, a call of Close by another thread)
\* leads to the ingestion being closed and, unless the loader never
\* signals VMsDone, to Serve returning; and when h.Serve ended with
\* ErrServerClosed, Serve returns nil.
C6_ShutdownRequestEndsServe ==
    /\ (WaitingForShutdown /\ ShutdownTriggered) ~>
          (IngestionClosed /\ (runpc = "returned" \/ loader = "hung"))
    /\ []((runpc = "returned" /\ hServeErr = "ErrServerClosed") =>
            runErr = "nil")

\* Serve has returned nil after a signal ended it gracefully, with no
\* other request.
C6_Witness ==
    /\ runpc = "returned" /\ serveSetup
    /\ sigDelivered /\ webquitCloses = 0
    /\ \A th \in Closers : closepc[th] = "idle"
    /\ hServeErr = "ErrServerClosed" /\ runErr = "nil"
    /\ loader = "done"

\* Thread th has called Close and Close has not returned to it.
InClose(th) == closepc[th] \in {"inBody", "waiting"}

\* C7 as stated: every call of Close eventually returns, also when the
\* loader never signals VMsDone or HTTP connections never finish.
C7_CloseAlwaysReturns ==
    \A th \in Threads : InClose(th) ~> (closepc[th] = "returned")

\* C7 as amended: every call of Close eventually returns unless the loader
\* never signals VMsDone; HTTP connections that never finish do not keep
\* it from returning, the shutdown of the HTTP server being cut off by
\* its timeout (and logged).
C7_CloseReturnsUnlessLoaderHangs ==
    /\ \A th \in Threads :
          InClose(th) ~> (closepc[th] = "returned" \/ loader = "hung")
    /\ []((stuckConn /\ httpShutdowns > 0) =>
            "shutdown timeout" \in shutdownLog)

\* Close has returned although an HTTP connection never finished: the
\* timeout of the HTTP shutdown was logged.
C7_Witness ==
    /\ closepc["main"] = "returned"
    /\ stuckConn
    /\ "shutdown timeout" \in shutdownLog

\* New has been through initLoader.
InitLoaderRan ==
    \/ newpc \in {"initTailer", "done"}
    \/ newpc = "failed" /\ newErr \in {"loader", "compile", "tailer"}

\* C8 as stated: once initLoader has run, the initial load was attempted
\* exactly when programPath is non-empty; compile errors make New fail
\* without a tailer; with an empty programPath the loader is constructed,
\* no load is attempted and initLoader succeeds.
C8_LoadIffProgramPath ==
    InitLoaderRan =>
        /\ loadAttempted <=> programPath # ""
        /\ newErr = "compile" => (newpc = "failed" /\ ~t)
        /\ programPath = "" => (l /\ ~loadAttempted /\ newErr # "loader")

\* C8 as amended: the initial load is attempted exactly when programPath
\* is non-empty and vm.NewLoader has succeeded; compile errors make New
\* fail without a tailer; with an empty programPath and a successful
\* vm.NewLoader, no load is attempted and initLoader succeeds.  Before
\* initLoader nothing is loaded.
C8_LoadIffProgramPathAndLoader ==
    /\ ~InitLoaderRan => ~loadAttempted
    /\ InitLoaderRan =>
          /\ loadAttempted <=> (programPath # "" /\ newErr # "loader")
          /\ newErr = "loader" <=> ~l
          /\ newErr = "compile" =>
                (newpc = "failed" /\ ~t /\ loadAttempted)
          /\ (programPath = "" /\ l) =>
                (~loadAttempted /\ newErr \in {"none", "tailer"})

\* New has failed on the compile errors of the initial load.
C8_Witness ==
    /\ newpc = "failed" /\ newErr = "compile"
    /\ programPath # "" /\ loadAttempted /\ l /\ ~t

\* The shutdown body is past the closing of the ingestion.
PastIngest == bodypc \in {"waitVMs", "httpShutdown", "end", "finished"}

\* C9: Close closes lines itself exactly when the Server has no tailer;
\* with a tailer it only calls tailer.Close.  So lines is closed by the
\* Server at most once, and never when a tailer owns it.
C9_LinesOwnership ==
    /\ linesCloses <= 1
    /\ linesCloses > 0 => ~t
    /\ tailerCloses > 0 => t
    /\ PastIngest =>
          IF t THEN tailerCloses = 1 /\ linesCloses = 0
          ELSE linesCloses = 1 /\ tailerCloses = 0

\* On a Server without a tailer every thread has called Close and
\* returned, and lines has been closed once.
C9_Witness ==
    /\ ~t /\ Constructed
    /\ \A th \in Closers : closepc[th] = "returned"
    /\ linesCloses = 1

\* The whole shutdown sequence has completed.
ShutdownComplete == closeOnce = "done" /\ bodypc = "finished" /\ ShutdownSteps

\* C10: when WaitForShutdown's call of Close has returned, and so when
\* Serve has returned, the whole shutdown sequence has completed, whoever
\* began it; and while WaitForShutdown waits inside Close for another
\* thread's body, that body is never held up by the waiting (it can step
\* unless it waits for VMsDone), and once it has finished the waiting
\* call can return.
C10_ServeReturnsAfterShutdown ==
    /\ (runpc = "wfsClose" /\ closepc["main"] = "returned") => ShutdownComplete
    /\ (runpc = "returned" /\ serveSetup) => ShutdownComplete
    /\ (runpc = "wfsClose" /\ closepc["main"] = "waiting") =>
          \/ ENABLED CloseBody
          \/ bodypc = "waitVMs" /\ loader # "done"
          \/ bodypc = "finished" /\ ENABLED CloseReturn("main")

\* WaitForShutdown has woken on closeQuit and waits inside Close while
\* another thread's shutdown body is waiting for VMsDone.
C10_Witness ==
    /\ runpc = "wfsClose" /\ closepc["main"] = "waiting"
    /\ closepc["c1"] = "inBody" /\ bodypc = "waitVMs"
    /\ ~sigDelivered /\ webquitCloses = 0

\* C11: webquit is closed at most once, however many POSTs to
\* /quitquitquit arrive: handleQuit never executes close(m.webquit) on a
\* channel that is closed already.
C11_WebquitClosedAtMostOnce == webquitCloses <= 1

\* C12: a request to /quitquitquit that is not a POST is answered with 405
\* and Allow: POST and changes nothing else: webquit stays open, Close is
\* not called and Run does not move; webquit is closed only by a POST,
\* and once it is closed WaitForShutdown can leave its select.
C12_OnlyPostQuits ==
    /\ []((lastMethod \notin {"none", "POST"}) <=>
            (lastStatus = "405 Allow: POST"))
    /\ [][(handleQuit /\ lastMethod' # "POST") =>
            UNCHANGED <<webquitCloses, runVars, closeVars, httpVars, loader>>]_vars
    /\ [][webquitCloses' # webquitCloses => (handleQuit /\ lastMethod' = "POST")]_vars
    /\ []((runpc = "wfsSelect" /\ webquitCloses > 0) => ENABLED WaitForShutdown)

\* A request other than POST has been turned away while Run waits in
\* WaitForShutdown and nothing has asked for a shutdown.
C12_Witness ==
    /\ lastMethod = "GET" /\ lastStatus = "405 Allow: POST"
    /\ webquitCloses = 0
    /\ runpc = "wfsSelect" /\ ~ShutdownTriggered /\ closeOnce = "fresh"

\* C13: every call of Close returns nil, whatever the shutdown body has
\* logged: a failure of tailer.Close and a failure or timeout of the HTTP
\* shutdown are only logged, the body goes on through the remaining steps,
\* and in one-shot mode Run never returns an error of Close.
C13_CloseReturnsNil ==
    /\ \A th \in Threads :
          /\ closepc[th] = "returned" <=> closeRet[th] # "none"
          /\ closeRet[th] \in {"none", "nil"}
          /\ closepc[th] = "returned" => ShutdownSteps
    /\ "tailer close failed" \in shutdownLog =>
          (PastIngest /\ (closeOnce = "done" => ShutdownSteps))
    /\ "shutdown timeout" \in shutdownLog =>
          (httpShutdowns > 0 /\ (l => vmsDoneAwaits > 0)
           /\ bodypc \in {"end", "finished"})
    /\ (bodypc = "waitVMs" /\ shutdownLog # {}) =>
          (ENABLED BodyWaitVMs \/ loader # "done")
    /\ (bodypc = "httpShutdown" /\ shutdownLog # {}) => ENABLED BodyHTTPShutdown
    /\ (OneShotMode /\ runpc # "idle") =>
          runErr \in {"none", "nil", "marshalErr", "writeErr"}

\* Close has returned nil to its three callers after tailer.Close failed
\* and the HTTP shutdown timed out, all the steps having been carried out.
C13_Witness ==
    /\ \A th \in Threads : closepc[th] = "returned" /\ closeRet[th] = "nil"
    /\ shutdownLog = {"tailer close failed", "shutdown timeout"}
    /\ ShutdownSteps /\ l /\ h /\ t

\* New has applied every option successfully.
OptionsApplied ==
    /\ optionsApplied = Len(options)
    /\ \A i \in 1..Len(options) : options[i] = "ok"

\* C14: New initialises in the order options, exporter, loader, tailer;
\* the options are applied in order up to the first that fails; the first
\* step that fails makes New return its error and no Server, no later step
\* being executed; so New never returns a Server together with an error,
\* and a Server it returns has its exporter, loader and tailer.
C14_NewInitOrder ==
    /\ [](newpc # "literal" =>
            /\ newpc = "done" => (newErr = "none" /\ e /\ l /\ t)
            /\ newpc = "failed" <=> newErr # "none"
            /\ newpc = "failed" =>
                  (runpc = "idle" /\ \A th \in Threads : closepc[th] = "idle")
            /\ t => l
            /\ l => e
            /\ newpc = "SetOption" => (optionsApplied = 0 /\ ~e)
            /\ (e /\ newpc # "done") => OptionsApplied
            /\ newErr = "option" =>
                  /\ ~e /\ ~l /\ ~t
                  /\ optionsApplied \in 1..Len(options)
                  /\ options[optionsApplied] = "err"
                  /\ \A j \in 1..(optionsApplied - 1) : options[j] = "ok"
            /\ newErr = "exporter" => (OptionsApplied /\ ~e /\ ~l /\ ~t)
            /\ newErr = "loader" => (e /\ ~l /\ ~t)
            /\ newErr \in {"compile", "tailer"} => (e /\ l /\ ~t))
    /\ [][newpc = "failed" => UNCHANGED <<newpc, newErr, e, l, t>>]_vars

\* New has failed on the first of two options, and the second was never
\* invoked.
C14_Witness ==
    /\ newpc = "failed" /\ newErr = "option"
    /\ options = <<"err", "ok">> /\ optionsApplied = 1
    /\ ~e /\ ~l /\ ~t

\* C15: StartTailing hands every configured pattern to the tailer, in
\* order, also when tailing an earlier one fails, and returns nil: Run
\* never exits on it and goes on to the one-shot or the continuous branch.
C15_StartTailingSubmitsAll ==
    /\ runpc = "idle" => (tailed = <<>> /\ ~tailFailed)
    /\ runpc # "exited"
    /\ (newpc = "done" /\ ~compileOnly /\ runpc # "idle") =>
          /\ tailed = logPathPatterns
          /\ runpc = "returned" =>
                (runErr # "none" /\ (oneShot \/ (storeGc /\ tailerGc)))
          /\ runpc # "returned" =>
                IF oneShot
                THEN runpc \in {"oneShotClose", "wmMarshal", "wmRUnlock",
                                "wmWrite"}
                ELSE runpc \in {"startStoreGc", "startTailerGc", "serve",
                                "wfsSelect", "wfsClose"}

\* Tailing a pattern has failed, both patterns were handed to the tailer
\* and Run has gone on to start the GC loops.
C15_Witness ==
    /\ tailFailed /\ Len(logPathPatterns) = 2 /\ tailed = logPathPatterns
    /\ runpc = "startTailerGc" /\ storeGc

\* Run has been called in continuous mode on a Server without a bind
\* address.
ContinuousNoBindAddress ==
    newpc = "done" /\ ~compileOnly /\ ~oneShot /\ bindAddress = ""

\* C16: without a bind address Serve returns an error at once: no handler
\* is installed, the metric push and the serving goroutine are not started
\* and no shutdown trigger is waited for; in continuous mode Run returns
\* that error with both GC loops started and without calling Close.
C16_ServeWithoutBindAddress ==
    ContinuousNoBindAddress =>
        /\ ~serveSetup /\ httppc = "none" /\ errc = "empty"
        /\ ~notifyRegistered /\ ~sigDelivered /\ webquitCloses = 0
        /\ closepc["main"] = "idle"
        /\ runpc \in {"idle", "startStoreGc", "startTailerGc", "serve",
                      "returned"}
        /\ runpc = "serve" => (storeGc /\ tailerGc)
        /\ runpc = "returned" =>
              (runErr = "noBindAddress" /\ storeGc /\ tailerGc)

\* Run has returned the error of Serve, the GC loops running and the
\* shutdown body never run.
C16_Witness ==
    /\ ContinuousNoBindAddress
    /\ runpc = "returned" /\ runErr = "noBindAddress"
    /\ storeGc /\ tailerGc /\ closeOnce = "fresh"

\* C17: WriteMetrics holds the read lock of the store only while it
\* marshals: the lock is released before anything is written and before
\* WriteMetrics returns, also when marshalling fails, and in that case
\* nothing is written.
C17_RLockOnlyWhileMarshalling ==
    /\ [](storeRLocked => runpc \in {"wmMarshal", "wmRUnlock"})
    /\ [](runpc \in {"wmWrite", "returned"} => ~storeRLocked)
    /\ [][metricsDumped' # metricsDumped =>
            (~storeRLocked /\ ~storeRLocked' /\ marshalled = "ok")]_vars
    /\ [](marshalled = "err" => ~metricsDumped)
    /\ []((runpc = "returned" /\ marshalled = "err") => runErr = "marshalErr")

\* WriteMetrics has returned the marshalling error: the lock is released
\* and nothing was written.
C17_Witness ==
    /\ runpc = "returned" /\ marshalled = "err" /\ runErr = "marshalErr"
    /\ ~storeRLocked /\ ~metricsDumped

====
